---- MODULE Spec2Model ----
(***************************************************************************)
(* Model of the pandas form validation engine of src/pandas.py:            *)
(* PandasForm (row cleaner, add_error, is_valid), the FieldCheck variants, *)
(* PandasValidationColumn and PandasValidationFrame.                       *)
(*                                                                         *)
(* One form instance is modelled.  Its class configuration (declared       *)
(* fields, the column rules derived from the Django model, the defaults)   *)
(* is fixed by the definitions below; whether the instance carries a       *)
(* schema (PandasModelForm with rules) or not (plain PandasForm), the      *)
(* nullable options, the fields that have a clean_<item> hook and the      *)
(* input rows are chosen in Init.                                          *)
(***************************************************************************)
EXTENDS Integers, Sequences, FiniteSets, TLC

\* ------------------------------------------------------------------ bounds
MaxRows == 2        \* rows in the input dataset: 0..MaxRows
MaxCleans == 2      \* direct _clean_data() passes on the instance
MaxValidates == 2   \* schema.validate() calls on the instance
MaxAdds == 1        \* add_error() calls on the instance
MaxMutations == 1   \* in-place changes of an input row by the caller
MemoRows == 1       \* rows of the datasets whose rows the caller changes

\* ----------------------------------------------------------- Python values
\* A Python value is tagged with its type; v is the text of the value.
PyNone == [k |-> "none", v |-> ""]
PyStr(s) == [k |-> "str", v |-> s]
PyInt(s) == [k |-> "int", v |-> s]
PyBool(b) == [k |-> "bool", v |-> IF b THEN "True" ELSE "False"]

\* bool(value): None, "", 0 and False are falsy.
Truthy(val) ==
  CASE val.k = "none" -> FALSE
    [] val.k = "str" -> val.v # ""
    [] val.k = "int" -> val.v # "0"
    [] val.k = "bool" -> val.v = "True"

\* The three states of PandasForm.cached_valid, and Python's `a and b`.
PyBools == {"True", "False"}
PyAnd(a, b) == IF a = "True" THEN b ELSE a

\* --------------------------------------------------- class configuration
\* Meta.fields, in declaration order.
Fields == <<"code", "name">>
FieldSet == {Fields[i] : i \in 1..Len(Fields)}

\* The value a clean_<item> hook may return instead of the value it was given.
HookValue(item) == PyStr("abcdefgh")

\* One check of a column: IsInCheck(field_name, cached_list) or
\* LengthCheck(field_name, length).
IsInCheck(name, cached_list) == [kind |-> "isin", field_name |-> name, cached_list |-> cached_list, length |-> 0]
LengthCheck(name, length) == [kind |-> "length", field_name |-> name, cached_list |-> {}, length |-> length]

\* max_length of the model's "name" field.
NameMaxLength == 5

\* handle_type: the checks of a column, LengthCheck first (max_length), then
\* the relation check, then the choices check.  "code" is a relation to the
\* records {1, 2}; "name" has max_length 5 and the choices abc, abcdef.
Checks(item) ==
  IF item = "code" THEN <<IsInCheck("code", {PyInt("1"), PyInt("2")})>>
  ELSE <<LengthCheck("name", NameMaxLength), IsInCheck("name", {PyStr("abc"), PyStr("abcdef")})>>

\* ------------------------------------------------------------ error maps
\* An error map: rows maps a row index to {field key -> list of messages};
\* all is the row-less scope, {key -> list}.  The code stores the row-less
\* list at errors['__all__'], which is the key "__all__" of that scope.
AllKey == "__all__"
EmptyErrors == [rows |-> << >>, all |-> << >>]

Put(fn, key, val) == [x \in (DOMAIN fn) \cup {key} |-> IF x = key THEN val ELSE fn[x]]
Get(fn, key, dflt) == IF key \in DOMAIN fn THEN fn[key] ELSE dflt

\* The list at errors[r][f], << >> when the row or the key is missing.
CellList(E, r, f) == Get(Get(E.rows, r, << >>), f, << >>)
HasCell(E, r, f) == r \in DOMAIN E.rows /\ f \in DOMAIN E.rows[r]

\* errors[r][f].append(e), creating the row entry and the list as needed.
AppendCell(E, r, f, e) ==
  [E EXCEPT !.rows = Put(E.rows, r, Put(Get(E.rows, r, << >>), f, Append(CellList(E, r, f), e)))]

\* errors[key].append(e) in the row-less scope, creating the list as needed.
AppendAll(E, key, e) ==
  [E EXCEPT !.all = Put(E.all, key, Append(Get(E.all, key, << >>), e))]

\* ------------------------------------------------------------------ state
VARIABLES
  hasSchema,      \* self.schema is a PandasValidationFrame (else None)
  hooked,         \* the fields for which the form class defines clean_<item>
  hookMay,        \* what an invocation of a clean_<item> hook may do
  nullable,       \* PandasValidationColumn.nullable, per column
  data,           \* self.data: the input rows, row i+1 is index i
  cached_valid,   \* self.cached_valid: "None", "True" or "False"
  hasCleaned,     \* self.cleaned_data has been built by _clean_data
  cleaned_data,   \* self.cleaned_data: row index -> {field -> value}
  row_data,       \* self.row_data: the current-row context
  pandas_data,    \* self.pandas_data: [set, rows], set is FALSE while it is None
  ownErrors,      \* the dict self.errors made by __init__ (or by _clean_data without schema)
  aliased,        \* self.errors is the very dict schema.errors
  schemaErrors,   \* PandasValidationFrame.errors
  schemaValid,    \* PandasValidationFrame.valid
  colErrors,      \* PandasValidationColumn.errors per column: row index -> list
  bound,          \* cells (row, field) whose frame list is the column's list object
  result,         \* what the last is_valid() call returned ("NoCall" before any)
  hookCalls,      \* number of clean_<item> hook invocations so far
  checkRuns,      \* number of Check.validate evaluations so far
  lastAdd,        \* the arguments of the last add_error call
  since,          \* kinds of operations run after the last is_valid() call
  between,        \* what ran between the last two is_valid() calls
  hookFailed,     \* cells whose hook raised in the last _clean_data pass
  checkFailed,    \* per cell, the messages handle_error recorded in the last validate
  cleanLog,       \* what the last _clean_data pass did, cell by cell
  ncleans, nvalidates, nadds, nmutations   \* operations done so far

vars == <<hasSchema, hooked, hookMay, nullable, data, cached_valid, hasCleaned, cleaned_data, row_data,
          pandas_data, ownErrors, aliased, schemaErrors, schemaValid, colErrors, bound,
          result, hookCalls, checkRuns, lastAdd, since, between, hookFailed, checkFailed,
          cleanLog, ncleans, nvalidates, nadds, nmutations>>

\* self.errors as the form sees it.
FormErrors == IF aliased THEN schemaErrors ELSE ownErrors

\* The number of input rows, and the cells (row index, field) of the dataset.
NRows == Len(data)
Cells(n) == (0..(n - 1)) \X FieldSet

\* ------------------------------------------------------------- Row Cleaner
\* handle_default: PandasForm returns None; PandasModelForm returns the model
\* field's default, None when it is NOT_PROVIDED.  "code" has the default 1.
handle_default(schema, item) ==
  IF schema /\ item = "code" THEN PyInt("1") ELSE PyNone

\* getattr(self, f'clean_{item}', None): a form class that defines clean_name
\* and no clean_code.
HookFields == {"name"}

\* What a hook invocation may do: raise ValidationError, return the value it
\* found in row_data, or return another value.
HookOutcomes == {"raise", "keep", "set"}
HookError == "hook failed"
HookCells(n) == (0..(n - 1)) \X hooked

\* Lines 40-42 with line 41 testing `item in values` only: any raw value that
\* is present overrides the default.
PreHookValuePresent(schema, values, item) ==
  IF item \in DOMAIN values THEN values[item] ELSE handle_default(schema, item)

\* Lines 40-42: the default, overridden by a raw value that is present and truthy.
PreHookValue(schema, values, item) ==
  IF item \in DOMAIN values /\ Truthy(values[item]) THEN values[item]
  ELSE handle_default(schema, item)

\* Lines 43-46: the hook's return value becomes the cleaned value; when the
\* hook raises, the assignment does not happen.
PostHookValue(pre, item, outcome) ==
  IF item \in hooked /\ outcome = "set" THEN HookValue(item) ELSE pre

\* Line 44 with the context bound before the cell's value is assigned (before
\* line 40): the row's map without the field being cleaned.
RowContextStale(cleaned, idx, item, pre) == Get(cleaned, idx, << >>)

\* Line 44: row_data is cleaned_data[idx] itself, which holds the values
\* cleaned so far in this row and, from lines 40-42, the field's value before
\* its hook.
RowContext(cleaned, idx, item, pre) == Put(Get(cleaned, idx, << >>), item, pre)

\* The log of a pass: the cells in the order the inner loop reached them, the
\* value each cell had after lines 40-42, the row_data each hook invocation
\* found, and the value each hook invocation returned.
EmptyLog == [order |-> << >>, pre |-> << >>, saw |-> << >>, ret |-> << >>]

\* Lines 47-54 with line 48 left out: the error is recorded and the flag stays.
RecordRowErrorKeepsFlag(s, B, idx, item) ==
  [s EXCEPT !.E = AppendCell(s.E, idx, item, HookError),
            !.C = IF <<idx, item>> \in B
                  THEN [s.C EXCEPT ![item] = Put(s.C[item], idx, Append(Get(s.C[item], idx, << >>), HookError))]
                  ELSE s.C,
            !.failed = s.failed \cup {<<idx, item>>}]

\* Lines 47-54 on the form's error map E, with the column lists C and the
\* bound cells B: the message is appended to errors[idx][item]; a list that is
\* a column's list object grows there as well.
RecordRowError(s, B, idx, item) ==
  [s EXCEPT !.cv = "False",
            !.E = AppendCell(s.E, idx, item, HookError),
            !.C = IF <<idx, item>> \in B
                  THEN [s.C EXCEPT ![item] = Put(s.C[item], idx, Append(Get(s.C[item], idx, << >>), HookError))]
                  ELSE s.C,
            !.failed = s.failed \cup {<<idx, item>>}]

\* One iteration of the inner loop (lines 38-54) for cell number k.
CleanCell(s, schema, rows, h, B, k) ==
  LET idx == k \div Len(Fields)
      item == Fields[(k % Len(Fields)) + 1]
      pre == PreHookValue(schema, rows[idx + 1], item)
      func == item \in hooked
      outcome == IF func THEN h[<<idx, item>>] ELSE "keep"
      raised == func /\ outcome = "raise"
      val == PostHookValue(pre, item, outcome)
      ctx == RowContext(s.cleaned, idx, item, pre)
      log == [order |-> Append(s.log.order, <<idx, item>>),
              pre |-> Put(s.log.pre, <<idx, item>>, pre),
              saw |-> IF func THEN Put(s.log.saw, <<idx, item>>, ctx) ELSE s.log.saw,
              ret |-> IF func /\ ~raised THEN Put(s.log.ret, <<idx, item>>, val) ELSE s.log.ret]
      s1 == [s EXCEPT !.cleaned = Put(s.cleaned, idx, Put(Get(s.cleaned, idx, << >>), item, val)),
                      !.hooks = IF func THEN s.hooks + 1 ELSE s.hooks,
                      !.log = log]
  IN IF raised THEN RecordRowError(s1, B, idx, item) ELSE s1

\* The loop of lines 36-54 with the except clause re-raising: the pass ends
\* at the first cell whose hook fails.
RECURSIVE CleanLoopAborting(_, _, _, _, _, _)
CleanLoopAborting(s, schema, rows, h, B, k) ==
  IF k >= Len(rows) * Len(Fields) \/ s.failed # {} THEN s
  ELSE CleanLoopAborting(CleanCell(s, schema, rows, h, B, k), schema, rows, h, B, k + 1)

\* The loop of lines 36-54 over the cells, rows first, fields in declaration order.
RECURSIVE CleanLoop(_, _, _, _, _, _)
CleanLoop(s, schema, rows, h, B, k) ==
  IF k >= Len(rows) * Len(Fields) THEN s
  ELSE CleanLoop(CleanCell(s, schema, rows, h, B, k), schema, rows, h, B, k + 1)

\* _clean_data beginning with `self.cached_valid = True`: every pass starts
\* from a raised flag.
CleanDataResetsFlag(schema, rows, h, E0, C0, B, cv0) ==
  CleanLoop([cleaned |-> << >>, E |-> E0, C |-> C0, cv |-> "True", hooks |-> 0, failed |-> {},
             log |-> EmptyLog],
            schema, rows, h, B, 0)

\* _clean_data (lines 32-55) as a function of the state it reads: E0 is
\* schema.errors when there is a schema and a new empty dict otherwise.
CleanData(schema, rows, h, E0, C0, B, cv0) ==
  CleanLoop([cleaned |-> << >>, E |-> E0, C |-> C0, cv |-> cv0, hooks |-> 0, failed |-> {},
             log |-> EmptyLog],
            schema, rows, h, B, 0)

\* ------------------------------------------------------------------ Checks
\* df[field].isin(cached_list) on one value.
IsIn(val, cached_list) == val \in cached_list

\* The length test with a value that is no string counted as the empty string.
LengthOkNullPasses(val, length) == (IF val.k = "str" THEN Len(val.v) ELSE 0) <= length

\* df[field].str.len() <= length on one value: the length of a value that is
\* no string is NaN, and NaN <= length is False.
LengthOk(val, length) == val.k = "str" /\ Len(val.v) <= length

CheckPasses(check, val) ==
  IF check.kind = "isin" THEN IsIn(val, check.cached_list) ELSE LengthOk(val, check.length)

\* Check.validate(df, nullable=...) as the sequence that enumerate(validation)
\* walks.  Without nullable it is the boolean Series, one entry per row.  With
\* nullable it is df[mask], a DataFrame, and iterating a DataFrame yields its
\* column labels, the declared fields.
CheckValidate(check, df, nul) ==
  IF nul THEN [j \in 1..Len(Fields) |-> PyStr(Fields[j])]
  ELSE [i \in 1..Len(df) |-> PyBool(CheckPasses(check, df[i][check.field_name]))]

\* get_error(): the fixed message of a check variant.
IsInMessage == "value not among the possible values"
LengthMessage(length) == "cell exceeds the maximal length " \o ToString(length)
get_error(check) ==
  IF check.kind = "isin" THEN IsInMessage ELSE LengthMessage(check.length)

\* -------------------------------------------------------- Column Validator
\* handle_error with line 169 assigning a new one-element list instead of
\* appending to the existing one.
handle_error_overwrite(s, name, check, index) ==
  [s EXCEPT !.C = [s.C EXCEPT ![name] = Put(s.C[name], index, <<get_error(check)>>)],
            !.failed = Put(s.failed, <<index, name>>, Append(Get(s.failed, <<index, name>>, << >>), get_error(check)))]

\* handle_error (lines 163-171): the message is appended to the column's list
\* for the row index; the frame's list grows too where it is the same object.
handle_error(s, name, check, index) ==
  [s EXCEPT !.C = [s.C EXCEPT ![name] = Put(s.C[name], index, Append(Get(s.C[name], index, << >>), get_error(check)))],
            !.E = IF <<index, name>> \in s.B THEN AppendCell(s.E, index, name, get_error(check)) ELSE s.E,
            !.failed = Put(s.failed, <<index, name>>, Append(Get(s.failed, <<index, name>>, << >>), get_error(check)))]

\* Line 176-177: the walk over one check's validation, entry j is index j-1.
RECURSIVE EntryLoop(_, _, _, _, _)
EntryLoop(s, name, check, validation, j) ==
  IF j > Len(validation) THEN s
  ELSE EntryLoop(IF Truthy(validation[j]) THEN s ELSE handle_error(s, name, check, j - 1),
                 name, check, validation, j + 1)

\* Lines 174-177: every check of the column in declaration order.
RECURSIVE CheckLoop(_, _, _, _, _)
CheckLoop(s, name, df, nul, c) ==
  IF c > Len(Checks(name)) THEN s
  ELSE CheckLoop(EntryLoop([s EXCEPT !.runs = s.runs + 1], name, Checks(name)[c],
                           CheckValidate(Checks(name)[c], df, nul), 1),
                 name, df, nul, c + 1)

ColumnValidate(s, name, df, nul) == CheckLoop(s, name, df, nul, 1)

\* --------------------------------------------------------- Validation Frame
\* Lines 196-198: an empty entry for every index of the DataFrame's RangeIndex.
InitErrors(E, n) ==
  [E EXCEPT !.rows = [r \in (DOMAIN E.rows) \cup (0..(n - 1)) |-> Get(E.rows, r, << >>)]]

\* bind_errors (lines 188-191): self.errors[idx][key] = val, the column's list
\* object itself; errors[idx] must exist.
RECURSIVE BindLoop(_, _, _)
BindLoop(s, name, todo) ==
  IF todo = {} THEN s
  ELSE LET idx == CHOOSE i \in todo : TRUE
       IN BindLoop([s EXCEPT !.E.rows[idx] = Put(s.E.rows[idx], name, s.C[name][idx]),
                             !.B = s.B \cup {<<idx, name>>}],
                   name, todo \ {idx})

bind_errors(s, name) == BindLoop(s, name, DOMAIN s.C[name])

\* Lines 199-203 with line 202 left out: a column with errors is bound, and
\* valid stays as it was.
FrameColumnKeepsValid(s, df, nuls, f) ==
  LET name == Fields[f]
      s1 == ColumnValidate(s, name, df, nuls[name])
  IN IF s1.C[name] # << >> THEN bind_errors(s1, name) ELSE s1

\* Lines 199-203 for the f-th column of cached_fields.
FrameColumn(s, df, nuls, f) ==
  LET name == Fields[f]
      s1 == ColumnValidate(s, name, df, nuls[name])
  IN IF s1.C[name] # << >> THEN bind_errors([s1 EXCEPT !.valid = FALSE], name) ELSE s1

RECURSIVE FrameLoop(_, _, _, _)
FrameLoop(s, df, nuls, f) ==
  IF f > Len(Fields) THEN s
  ELSE FrameLoop(FrameColumn(s, df, nuls, f), df, nuls, f + 1)

\* PandasValidationFrame.validate (lines 193-203) as a function of the state
\* it reads.
FrameValidate(df, nuls, E0, C0, B0, valid0) ==
  FrameLoop([E |-> InitErrors(E0, Len(df)), C |-> C0, B |-> B0, valid |-> valid0,
             runs |-> 0, failed |-> << >>],
            df, nuls, 1)

\* pd.DataFrame(self.cleaned_data.values()): row i+1 is index i.
DataFrame(cleaned) == [i \in 1..Cardinality(DOMAIN cleaned) |-> cleaned[i - 1]]

\* ------------------------------------------------------------ input rows
\* A row is a dict from some of the fields to raw values.  The rows a caller
\* may hand in: the empty dict, a row that breaks the rules of both columns,
\* and a row that meets them.
RowSet ==
  { << >>,
    [code |-> PyInt("3"), name |-> PyStr("abcdef")],
    [code |-> PyInt("1"), name |-> PyStr("abc")] }
DataSets == UNION {[1..n -> RowSet] : n \in 0..MaxRows}

\* The rows handed to the instance that is cleaned from fresh: the empty
\* dict, a row whose values are present and falsy, and a row of truthy values.
FreshRowSet ==
  { << >>,
    [code |-> PyInt("0"), name |-> PyStr("")],
    [code |-> PyInt("2"), name |-> PyStr("abc")] }
FreshDataSets == UNION {[1..n -> FreshRowSet] : n \in 0..MaxRows}

\* Arguments of add_error: the field ("" stands for None), the message, the
\* row (NoRow stands for None).
NoRow == -1
AddFields == {"", "name"}
AddMessages == {"e1"}
AddRows == {NoRow} \cup (0..(MaxRows - 1))

NoArgs == [field |-> "", error |-> "", row |-> NoRow]

\* ------------------------------------------------------------------- Init
\* PandasForm.__init__ (lines 17-26) and PandasModelForm.__init__ (lines
\* 213-225); PandasValidationFrame.__init__ and PandasValidationColumn.__init__
\* for the schema.
Construct(datasets, outcomes, classes) ==
  /\ hasSchema \in BOOLEAN
  /\ hooked \in classes
  /\ hookMay = outcomes
  /\ nullable \in {[item \in FieldSet |-> b] : b \in BOOLEAN}
  /\ hasSchema = FALSE => nullable = [item \in FieldSet |-> FALSE]
  /\ data \in datasets
  /\ cached_valid = "True"
  /\ hasCleaned = FALSE
  /\ cleaned_data = << >>
  /\ row_data = << >>
  /\ pandas_data = [set |-> FALSE, rows |-> << >>]
  /\ ownErrors = EmptyErrors
  /\ aliased = FALSE
  /\ schemaErrors = EmptyErrors
  /\ schemaValid = TRUE
  /\ colErrors = [item \in FieldSet |-> << >>]
  /\ bound = {}
  /\ result = "NoCall"
  /\ hookCalls = 0
  /\ checkRuns = 0
  /\ lastAdd = NoArgs
  /\ since = {}
  /\ between = {}
  /\ hookFailed = {}
  /\ checkFailed = << >>
  /\ cleanLog = EmptyLog
  /\ ncleans = 0 /\ nvalidates = 0 /\ nadds = 0 /\ nmutations = 0

\* A form over up to MaxRows rows whose hook raises or returns the value it
\* was given.
Init == Construct(DataSets, {"raise", "keep"}, {HookFields})

\* ---------------------------------------------------------------- actions
\* The kinds of operations run since the last is_valid() call, once there was one.
Since(kind) == IF result = "NoCall" THEN {} ELSE since \cup {kind}

\* A direct _clean_data() pass (lines 32-55), one of at most limit passes; h
\* is what each hook invocation does.  self.errors becomes schema.errors, or a
\* new dict without schema.
CleanPass(limit) ==
  /\ ncleans < limit
  /\ \E h \in [HookCells(NRows) -> hookMay] :
       \E c \in {CleanData(hasSchema, data, h,
                           IF hasSchema THEN schemaErrors ELSE EmptyErrors,
                           colErrors, bound, cached_valid)} :
          /\ cleaned_data' = c.cleaned
          /\ cached_valid' = c.cv
          /\ hookCalls' = hookCalls + c.hooks
          /\ hookFailed' = c.failed
          /\ cleanLog' = c.log
          /\ colErrors' = c.C
          /\ IF hasSchema
             THEN schemaErrors' = c.E /\ aliased' = TRUE /\ UNCHANGED ownErrors
             ELSE ownErrors' = c.E /\ UNCHANGED <<schemaErrors, aliased>>
  /\ hasCleaned' = TRUE
  /\ row_data' = << >>
  /\ ncleans' = ncleans + 1
  /\ since' = Since("clean")
  /\ UNCHANGED <<hasSchema, hooked, hookMay, nullable, data, pandas_data, schemaValid, bound, result,
                 checkRuns, lastAdd, between, checkFailed, nvalidates, nadds, nmutations>>

CleanDataPass == CleanPass(MaxCleans)

\* Lines 80-85: the DataFrame of the cleaned rows is built and handed to
\* schema.validate.  On an empty DataFrame the first check's column lookup
\* raises KeyError before the frame has changed anything.
SchemaValidate ==
  /\ nvalidates < MaxValidates
  /\ hasSchema /\ hasCleaned
  /\ \E df \in {DataFrame(cleaned_data)} :
     \E v \in {FrameValidate(df, nullable, schemaErrors, colErrors, bound, schemaValid)} :
        /\ pandas_data' = [set |-> TRUE, rows |-> df]
        /\ IF Len(df) = 0
           THEN /\ UNCHANGED <<schemaErrors, colErrors, bound, schemaValid, checkRuns>>
                /\ checkFailed' = << >>
           ELSE /\ schemaErrors' = v.E
                /\ colErrors' = v.C
                /\ bound' = v.B
                /\ schemaValid' = v.valid
                /\ checkRuns' = checkRuns + v.runs
                /\ checkFailed' = v.failed
  /\ nvalidates' = nvalidates + 1
  /\ since' = Since("validate")
  /\ UNCHANGED <<hasSchema, hooked, hookMay, nullable, data, cached_valid, hasCleaned, cleaned_data, row_data,
                 ownErrors, aliased, result, hookCalls, lastAdd, between, hookFailed, cleanLog,
                 ncleans, nadds, nmutations>>

\* add_error (lines 57-72) on the error map E; the truthiness of field and
\* row decides the branch.  In AddError the list of a cell that is a column's
\* list object grows in the column's error map as well.
RowTruthy(row) == row # NoRow /\ row # 0
CurrField(field) == IF field # "" THEN field ELSE AllKey
add_error(E, field, error, row) ==
  IF RowTruthy(row) THEN AppendCell(E, row, CurrField(field), error)
  ELSE AppendAll(E, AllKey, error)

\* add_error ending with `self.cached_valid = False`.
AddErrorLowersFlag ==
  /\ nadds < MaxAdds
  /\ \E field \in AddFields, error \in AddMessages, row \in AddRows :
       \E E \in {add_error(FormErrors, field, error, row)} :
       \E shared \in {aliased /\ RowTruthy(row) /\ <<row, CurrField(field)>> \in bound} :
          /\ IF aliased
             THEN schemaErrors' = E /\ UNCHANGED ownErrors
             ELSE ownErrors' = E /\ UNCHANGED schemaErrors
          /\ colErrors' = IF shared
                          THEN [colErrors EXCEPT ![field] = Put(colErrors[field], row, CellList(E, row, field))]
                          ELSE colErrors
          /\ lastAdd' = [field |-> field, error |-> error, row |-> row]
  /\ cached_valid' = "False"
  /\ nadds' = nadds + 1
  /\ since' = Since("add_error")
  /\ UNCHANGED <<hasSchema, hooked, hookMay, nullable, data, hasCleaned, cleaned_data, row_data,
                 pandas_data, aliased, schemaValid, bound, result, hookCalls, checkRuns,
                 between, hookFailed, checkFailed, cleanLog, ncleans, nvalidates, nmutations>>

AddError ==
  /\ nadds < MaxAdds
  /\ \E field \in AddFields, error \in AddMessages, row \in AddRows :
       \E E \in {add_error(FormErrors, field, error, row)} :
       \E shared \in {aliased /\ RowTruthy(row) /\ <<row, CurrField(field)>> \in bound} :
          /\ IF aliased
             THEN schemaErrors' = E /\ UNCHANGED ownErrors
             ELSE ownErrors' = E /\ UNCHANGED schemaErrors
          /\ colErrors' = IF shared
                          THEN [colErrors EXCEPT ![field] = Put(colErrors[field], row, CellList(E, row, field))]
                          ELSE colErrors
          /\ lastAdd' = [field |-> field, error |-> error, row |-> row]
  /\ nadds' = nadds + 1
  /\ since' = Since("add_error")
  /\ UNCHANGED <<hasSchema, hooked, hookMay, nullable, data, cached_valid, hasCleaned, cleaned_data, row_data,
                 pandas_data, aliased, schemaValid, bound, result, hookCalls, checkRuns,
                 between, hookFailed, checkFailed, cleanLog, ncleans, nvalidates, nmutations>>

\* The caller changes a row of the list it handed to the form: a field is set
\* to a raw value or removed.
MutateData ==
  /\ nmutations < MaxMutations
  /\ \E i \in 1..NRows, r \in RowSet :
       /\ r # data[i]
       /\ data' = [data EXCEPT ![i] = r]
  /\ nmutations' = nmutations + 1
  /\ since' = Since("mutate")
  /\ UNCHANGED <<hasSchema, hooked, hookMay, nullable, cached_valid, hasCleaned, cleaned_data, row_data,
                 pandas_data, ownErrors, aliased, schemaErrors, schemaValid, colErrors, bound,
                 result, hookCalls, checkRuns, lastAdd, between, hookFailed, checkFailed, cleanLog,
                 ncleans, nvalidates, nadds>>

\* Line 76 with the test inverted: `self.cached_valid is None`.
IsCachedInverted(cv) == cv = "None"

\* Line 76: `self.cached_valid is not None`.
IsCached(cv) == cv # "None"

\* is_valid (lines 74-87).  A cached_valid that is not None is returned as it
\* is.  Otherwise the Row Cleaner runs, then with a schema the frame validates
\* the DataFrame of the cleaned rows and `schema.valid and self.cached_valid`
\* is returned; without schema False is returned.
is_valid ==
  /\ IF IsCached(cached_valid)
     THEN /\ result' = cached_valid
          /\ UNCHANGED <<cached_valid, hasCleaned, cleaned_data, row_data, pandas_data,
                         ownErrors, aliased, schemaErrors, schemaValid, colErrors, bound,
                         hookCalls, checkRuns, hookFailed, checkFailed, cleanLog>>
     ELSE /\ \E h \in [HookCells(NRows) -> hookMay] :
               \E c \in {CleanData(hasSchema, data, h,
                                   IF hasSchema THEN schemaErrors ELSE EmptyErrors,
                                   colErrors, bound, cached_valid)} :
               \E df \in {DataFrame(c.cleaned)} :
               \E v \in {FrameValidate(df, nullable, c.E, c.C, bound, schemaValid)} :
               \E ran \in {hasSchema /\ Len(df) > 0} :
                  /\ cleaned_data' = c.cleaned
                  /\ cached_valid' = c.cv
                  /\ hookCalls' = hookCalls + c.hooks
                  /\ hookFailed' = c.failed
                  /\ cleanLog' = c.log
                  /\ pandas_data' = IF hasSchema THEN [set |-> TRUE, rows |-> df] ELSE pandas_data
                  /\ colErrors' = IF ran THEN v.C ELSE c.C
                  /\ bound' = IF ran THEN v.B ELSE bound
                  /\ schemaValid' = IF ran THEN v.valid ELSE schemaValid
                  /\ checkRuns' = IF ran THEN checkRuns + v.runs ELSE checkRuns
                  /\ checkFailed' = IF ran THEN v.failed ELSE checkFailed
                  /\ IF hasSchema
                     THEN schemaErrors' = (IF ran THEN v.E ELSE c.E) /\ aliased' = TRUE /\ UNCHANGED ownErrors
                     ELSE ownErrors' = c.E /\ UNCHANGED <<schemaErrors, aliased>>
                  /\ result' = IF ~hasSchema THEN "False"
                               ELSE IF ~ran THEN "KeyError"
                               ELSE PyAnd(IF v.valid THEN "True" ELSE "False", c.cv)
          /\ hasCleaned' = TRUE
          /\ row_data' = << >>
  /\ between' = IF result = "NoCall" THEN {"first"} ELSE since
  /\ since' = {}
  /\ UNCHANGED <<hasSchema, hooked, hookMay, nullable, data, lastAdd, ncleans, nvalidates, nadds, nmutations>>

\* The operations of one form instance on the rows it was built with.
Next == CleanDataPass \/ SchemaValidate \/ AddError \/ is_valid

Spec == Init /\ [][Next]_vars

\* The same operations on an instance whose caller also changes the input
\* rows in place and whose hook may also return a value of its own, for
\* datasets of at most MemoRows rows.
InitMemo == Construct({d \in DataSets : Len(d) <= MemoRows}, HookOutcomes, {HookFields})

NextMemo == Next \/ MutateData

SpecMemo == InitMemo /\ [][NextMemo]_vars

\* An instance of a class that defines a hook for any of the fields, each of
\* which may raise, return the value it found or return a value of its own;
\* the instance is cleaned from fresh, over rows with missing and falsy
\* values, and asked for its verdict.
InitFresh == Construct(FreshDataSets, HookOutcomes, SUBSET FieldSet)

\* The first _clean_data() pass on the instance.
CleanFresh == ~hasCleaned /\ CleanPass(MaxCleans)

NextFresh == CleanFresh \/ is_valid

SpecFresh == InitFresh /\ [][NextFresh]_vars

\* ------------------------------------------------------------- properties
Range(seq) == {seq[i] : i \in 1..Len(seq)}
IsPrefix(a, b) == Len(a) <= Len(b) /\ SubSeq(b, 1, Len(a)) = a

\* The step is an is_valid() call / a _clean_data pass / a schema.validate
\* call / an add_error call.
IsValidStep ==
  /\ result' # "NoCall"
  /\ since' = {}
  /\ between' = (IF result = "NoCall" THEN {"first"} ELSE since)
CleanStep == ncleans' = ncleans + 1
ValidateStep == nvalidates' = nvalidates + 1
AddStep == nadds' = nadds + 1

\* The state is the one an is_valid() call has just returned in.
JustReturned == result # "NoCall" /\ since = {}

\* C1: on an instance without column rules (no schema) every is_valid() call
\* returns False, the first call on a fresh instance included.
C1_FailClosed == ~hasSchema => result \in {"NoCall", "False"}

\* C2: on an instance with column rules is_valid() returns False exactly when
\* a row-level error or a column-level check failure has been recorded, and
\* the returned value is `frame.valid and cached_valid`.
RowLevelErrorRecorded ==
  \/ hookFailed # {}
  \/ \E r \in DOMAIN FormErrors.rows : \E f \in DOMAIN FormErrors.rows[r] :
       HookError \in Range(FormErrors.rows[r][f])
ColumnFailureRecorded == \E item \in FieldSet : colErrors[item] # << >>
C2_VerdictIffErrors ==
  (hasSchema /\ JustReturned) =>
     /\ (result = "False") <=> (RowLevelErrorRecorded \/ ColumnFailureRecorded)
     /\ result = PyAnd(IF schemaValid THEN "True" ELSE "False", cached_valid)

\* C3: once the first is_valid() call on a fresh instance has returned, the
\* Row Cleaner has run over every row (every hook invoked, a cleaned entry
\* per row index) and, with column rules, the DataFrame was built and the
\* frame has validated it.
C3_FirstCallRunsPipeline ==
  result # "NoCall" =>
     /\ hasCleaned
     /\ DOMAIN cleaned_data = 0..(NRows - 1)
     /\ hookCalls >= NRows * Cardinality(hooked)
     /\ hasSchema => (pandas_data.set /\ (NRows > 0 => checkRuns > 0))

C5_AddErrorRow ==
  [][(AddStep /\ lastAdd'.row # NoRow /\ lastAdd'.field # "") =>
       /\ CellList(FormErrors', lastAdd'.row, lastAdd'.field)
            = Append(CellList(FormErrors, lastAdd'.row, lastAdd'.field), lastAdd'.error)
       /\ FormErrors'.all = FormErrors.all]_vars

\* C6: add_error records the error under the key that is the given field,
\* "__all__" only when no field is given, in the scope of the given row, the
\* row-less scope only when no row is given.
AddKey(a) == IF a.field # "" THEN a.field ELSE AllKey
C6_AddErrorKey ==
  [][AddStep =>
       IF lastAdd'.row # NoRow
       THEN /\ CellList(FormErrors', lastAdd'.row, AddKey(lastAdd'))
                 = Append(CellList(FormErrors, lastAdd'.row, AddKey(lastAdd')), lastAdd'.error)
            /\ FormErrors'.all = FormErrors.all
       ELSE /\ FormErrors'.all
                 = Put(FormErrors.all, AddKey(lastAdd'),
                       Append(Get(FormErrors.all, AddKey(lastAdd'), << >>), lastAdd'.error))
            /\ FormErrors'.rows = FormErrors.rows]_vars

\* C7: after a validation pass (the Row Cleaner, then the frame when there
\* are column rules) the form's error map has an entry for every row index
\* of the dataset, with and without column rules.
Dense(E, n) == \A i \in 0..(n - 1) : i \in DOMAIN E.rows
C7_DenseCoverage ==
  [][((CleanStep /\ ~hasSchema) \/ ValidateStep) => Dense(FormErrors', NRows)]_vars

\* C8: a list of the form's error map, once created, is only ever extended
\* at its end: every operation leaves each existing list in place as a prefix
\* of what is there afterwards.
C8_AppendOnly ==
  [][/\ \A r \in DOMAIN FormErrors.rows : \A f \in DOMAIN FormErrors.rows[r] :
          /\ HasCell(FormErrors', r, f)
          /\ IsPrefix(FormErrors.rows[r][f], CellList(FormErrors', r, f))
     /\ \A key \in DOMAIN FormErrors.all :
          /\ key \in DOMAIN FormErrors'.all
          /\ IsPrefix(FormErrors.all[key], FormErrors'.all[key])]_vars

\* C9: after the Row Cleaner and then the frame have run, every cell of the
\* final error map holds the row-level error of a hook that failed on it and
\* the message of every check that failed on it.
C9_NonLossyMerge ==
  [][ValidateStep =>
       \A cell \in Cells(NRows) :
          /\ cell \in hookFailed => HookError \in Range(CellList(FormErrors', cell[1], cell[2]))
          /\ Range(Get(checkFailed', cell, << >>)) \subseteq Range(CellList(FormErrors', cell[1], cell[2]))]_vars

\* C10: in one validate call of a column validator every check of the column
\* is evaluated, and the validator's list for a row holds exactly the
\* messages of the checks that fail on that row, in declaration order.
EntryFails(check, df, nul, idx) ==
  LET validation == CheckValidate(check, df, nul)
  IN idx + 1 <= Len(validation) /\ ~Truthy(validation[idx + 1])
FailingMessages(item, df, nul, idx) ==
  LET Fails(check) == EntryFails(check, df, nul, idx)
      failing == SelectSeq(Checks(item), Fails)
  IN [k \in 1..Len(failing) |-> get_error(failing[k])]
RECURSIVE CountChecks(_)
CountChecks(f) == IF f > Len(Fields) THEN 0 ELSE Len(Checks(Fields[f])) + CountChecks(f + 1)
C10_AccumulateInOrder ==
  [][(ValidateStep /\ Len(pandas_data'.rows) > 0) =>
       /\ checkRuns' = checkRuns + CountChecks(1)
       /\ \A item \in FieldSet :
            colErrors[item] = << >> =>
               \A idx \in 0..MaxRows :
                  Get(colErrors'[item], idx, << >>)
                    = FailingMessages(item, pandas_data'.rows, nullable[item], idx)]_vars

\* A column validator has recorded two messages for one row, the length
\* message before the membership message.
C10_Witness ==
  \E idx \in DOMAIN colErrors["name"] :
     /\ nvalidates = 1
     /\ colErrors["name"][idx] = <<LengthMessage(NameMaxLength), IsInMessage>>

\* The messages of the checks of a column, in declaration order, on whose
\* predicate Fails(check, value) the value of row idx of df fails.
MessagesWhere(Fails(_, _), item, df, idx) ==
  LET F(check) == Fails(check, df[idx + 1][item])
      failing == SelectSeq(Checks(item), F)
  IN [k \in 1..Len(failing) |-> get_error(failing[k])]

\* One validate call of a fresh, non-nullable column validator records for
\* every row exactly the messages of the checks the row fails by Fails, and
\* no entry for a row that fails none.
RecordsExactly(Fails(_, _)) ==
  (ValidateStep /\ Len(pandas_data'.rows) > 0) =>
     \A item \in FieldSet :
        (colErrors[item] = << >> /\ ~nullable[item]) =>
           /\ DOMAIN colErrors'[item] \subseteq 0..(Len(pandas_data'.rows) - 1)
           /\ \A idx \in 0..(Len(pandas_data'.rows) - 1) :
                 /\ Get(colErrors'[item], idx, << >>) = MessagesWhere(Fails, item, pandas_data'.rows, idx)
                 /\ idx \in DOMAIN colErrors'[item] <=> MessagesWhere(Fails, item, pandas_data'.rows, idx) # << >>

\* C11 as stated: without nullable, the rows a column validator records are
\* exactly the rows whose value is not in the candidate set (membership
\* check) and the rows whose string length exceeds max_length (length check),
\* each with the check's message; other rows get no message.
FailsAsStated(check, val) ==
  IF check.kind = "isin" THEN val \notin check.cached_list
  ELSE val.k = "str" /\ Len(val.v) > check.length
FailsAmended(check, val) ==
  IF check.kind = "isin" THEN val \notin check.cached_list
  ELSE ~(val.k = "str" /\ Len(val.v) <= check.length)
NoEntryFails(df) ==
  \A item \in FieldSet : \A c \in 1..Len(Checks(item)) : \A idx \in 0..(Len(df) - 1) :
     ~EntryFails(Checks(item)[c], df, nullable[item], idx)
C12_FrameValid ==
  [][(ValidateStep /\ Len(pandas_data'.rows) > 0) =>
       /\ (schemaValid' = FALSE) <=> (\E item \in FieldSet : colErrors'[item] # << >>)
       /\ ((\A item \in FieldSet : colErrors[item] = << >>) /\ NoEntryFails(pandas_data'.rows))
             => schemaValid' = TRUE
       /\ \A item \in FieldSet : \A idx \in DOMAIN colErrors'[item] :
             /\ HasCell(schemaErrors', idx, item)
             /\ schemaErrors'.rows[idx][item] = colErrors'[item][idx]]_vars

\* The frame has validated a two-row dataset on which only row 1 fails:
\* valid is False and the frame's map holds the lists of both columns.
C12_Witness ==
  /\ nvalidates >= 1
  /\ schemaValid = FALSE
  /\ Len(pandas_data.rows) = 2
  /\ \A item \in FieldSet :
       /\ DOMAIN colErrors[item] = {1}
       /\ CellList(schemaErrors, 1, item) = colErrors[item][1]
       /\ Len(colErrors[item][1]) > 0

\* C13: in a Row Cleaner pass the value a cell has when its hook stage begins
\* is the raw value when the row holds a truthy value for the field, and the
\* default resolver's value otherwise, also for a raw value that is present
\* and falsy; without a hook this is the cleaned value, and with a hook that
\* returns, the cleaned value is what the hook returned.
DefaultOrRaw(i, f) ==
  IF f \in DOMAIN data[i + 1] /\ Truthy(data[i + 1][f]) THEN data[i + 1][f]
  ELSE handle_default(hasSchema, f)
C13_DefaultsAndOverride ==
  [][CleanStep =>
       \A cell \in Cells(NRows) :
          /\ cleanLog'.pre[cell] = DefaultOrRaw(cell[1], cell[2])
          /\ cell[2] \in hooked => cleanLog'.saw[cell][cell[2]] = DefaultOrRaw(cell[1], cell[2])
          /\ cell[2] \notin hooked => cleaned_data'[cell[1]][cell[2]] = DefaultOrRaw(cell[1], cell[2])
          /\ cell \in DOMAIN cleanLog'.ret => cleaned_data'[cell[1]][cell[2]] = cleanLog'.ret[cell]]_vars

\* A row whose code is present and 0 was cleaned to the default 1 by a form
\* without a hook for code, and its name is the value the hook returned.
C13_Witness ==
  /\ ncleans = 1 /\ hasSchema /\ hooked = {"name"}
  /\ \E i \in 0..(NRows - 1) :
       /\ "code" \in DOMAIN data[i + 1] /\ data[i + 1]["code"] = PyInt("0")
       /\ cleaned_data[i]["code"] = PyInt("1")
       /\ cleanLog.saw[<<i, "name">>]["name"] = PyNone
       /\ cleaned_data[i]["name"] = HookValue("name")

\* C14: whatever cells the hooks fail on, a Row Cleaner pass reaches every
\* declared field of every row once, rows in order and fields in declaration
\* order, invokes every hook, leaves a cleaned value for every field of every
\* row, and holds a message in the error map for every failed cell.
CellOrder(n) ==
  [k \in 1..(n * Len(Fields)) |-> <<(k - 1) \div Len(Fields), Fields[((k - 1) % Len(Fields)) + 1]>>]
C14_NeverAborts ==
  [][CleanStep =>
       /\ cleanLog'.order = CellOrder(NRows)
       /\ hookCalls' = hookCalls + NRows * Cardinality(hooked)
       /\ DOMAIN cleaned_data' = 0..(NRows - 1)
       /\ \A i \in 0..(NRows - 1) : DOMAIN cleaned_data'[i] = FieldSet
       /\ \A cell \in hookFailed' : HookError \in Range(CellList(FormErrors', cell[1], cell[2]))]_vars

\* The hook of the first field failed on row 0 of a two-row dataset, and the
\* pass went on through row 1.
C14_Witness ==
  /\ ncleans = 1 /\ NRows = 2
  /\ <<0, Fields[1]>> \in hookFailed
  /\ Len(cleanLog.order) = 2 * Len(Fields)
  /\ DOMAIN cleaned_data = {0, 1}
  /\ <<1, Fields[2]>> \in DOMAIN cleanLog.ret

\* C15: after one Row Cleaner pass on a fresh instance the error map holds
\* exactly one entry at errors[row][field] for each cell whose hook failed and
\* nothing for any other cell or row; cached_valid is False when a hook
\* failed; and is_valid() then returns False, with or without column rules.
C15_RowLevelErrors ==
  [][/\ (CleanStep /\ ncleans = 0 /\ nvalidates = 0) =>
          /\ \A cell \in Cells(NRows) :
                IF cell \in hookFailed'
                THEN CellList(FormErrors', cell[1], cell[2]) = <<HookError>>
                ELSE ~HasCell(FormErrors', cell[1], cell[2])
          /\ DOMAIN FormErrors'.rows = {cell[1] : cell \in hookFailed'}
          /\ hookFailed' # {} => cached_valid' = "False"
     /\ (IsValidStep /\ ncleans >= 1 /\ hookFailed # {}) => result' = "False"]_vars

\* The hook of name failed on row 1 only, on a form without column rules,
\* and is_valid() has returned False.
C15_Witness ==
  /\ JustReturned /\ result = "False" /\ ~hasSchema
  /\ NRows = 2 /\ ncleans = 1
  /\ hookFailed = {<<1, "name">>}
  /\ ownErrors.rows = [i \in {1} |-> [f \in {"name"} |-> <<HookError>>]]

\* C17: in a Row Cleaner pass the row_data a hook of field f finds on row i
\* holds, for the fields declared before f, the final cleaned values of row
\* i, for f the value before the hook, and nothing else; when the pass has
\* ended row_data is empty.
FieldPos(f) == CHOOSE j \in 1..Len(Fields) : Fields[j] = f
C17_RowContext ==
  [][CleanStep =>
       /\ row_data' = << >>
       /\ DOMAIN cleanLog'.saw = HookCells(NRows)
       /\ \A cell \in HookCells(NRows) :
             cleanLog'.saw[cell]
               = [g \in {Fields[j] : j \in 1..FieldPos(cell[2])} |->
                    IF g = cell[2] THEN cleanLog'.pre[cell] ELSE cleaned_data'[cell[1]][g]]]_vars

\* On a two-row dataset the hook of name found, on row 1, the value the hook
\* of code had returned for row 1, while row 0 had been cleaned to another code.
C17_Witness ==
  /\ ncleans = 1 /\ NRows = 2 /\ hooked = FieldSet
  /\ row_data = << >>
  /\ cleanLog.saw[<<1, "name">>]["code"] = HookValue("code")
  /\ cleaned_data[0]["code"] # HookValue("code")

\* C16: for every check of every column, nullable or not, the validation the
\* column validator walks has one boolean entry per row of the dataset, entry
\* i being the check's predicate on row i, and with nullable the conjunction
\* of that predicate and `the value of row i is null`; a fresh column
\* validator records a failure for row i exactly when an entry i is False.
IsNull(val) == val.k = "none"
EntryAsStated(check, val, nul) ==
  PyBool(IF nul THEN CheckPasses(check, val) /\ IsNull(val) ELSE CheckPasses(check, val))
C16_VectorPerRow ==
  [][(ValidateStep /\ Len(pandas_data'.rows) > 0) =>
       \A item \in FieldSet :
          /\ \A c \in 1..Len(Checks(item)) :
                /\ Len(CheckValidate(Checks(item)[c], pandas_data'.rows, nullable[item])) = Len(pandas_data'.rows)
                /\ \A i \in 1..Len(pandas_data'.rows) :
                      CheckValidate(Checks(item)[c], pandas_data'.rows, nullable[item])[i]
                        = EntryAsStated(Checks(item)[c], pandas_data'.rows[i][item], nullable[item])
          /\ colErrors[item] = << >> =>
                \A i \in 1..Len(pandas_data'.rows) :
                   (i - 1) \in DOMAIN colErrors'[item]
                     <=> \E c \in 1..Len(Checks(item)) :
                            ~Truthy(EntryAsStated(Checks(item)[c], pandas_data'.rows[i][item], nullable[item]))]_vars

\* C18: add_error leaves cached_valid, the frame's valid flag and the cleaned
\* data as they are and leaves its error in the error map; an is_valid() call
\* that follows an is_valid() call with only add_error in between returns
\* what that call returned.
HoldsError(E, e) ==
  \/ \E key \in DOMAIN E.all : e \in Range(E.all[key])
  \/ \E r \in DOMAIN E.rows : \E f \in DOMAIN E.rows[r] : e \in Range(E.rows[r][f])
C18_AddErrorKeepsVerdict ==
  [][/\ AddStep =>
          /\ cached_valid' = cached_valid
          /\ schemaValid' = schemaValid
          /\ cleaned_data' = cleaned_data
          /\ HoldsError(FormErrors', lastAdd'.error)
     /\ (IsValidStep /\ since = {"add_error"}) => result' = result]_vars

\* is_valid() returned True, add_error recorded an error, and is_valid() has
\* returned True again.
C18_Witness ==
  /\ JustReturned /\ between = {"add_error"}
  /\ result = "True"
  /\ nadds = 1 /\ HoldsError(FormErrors, lastAdd.error)

\* C19: no operation raises cached_valid from False or the frame's valid
\* flag from False, and every list of a column validator's error map stays in
\* place as a prefix of what is there afterwards; so a validate call on a
\* frame that is invalid leaves it invalid.
C19_FlagsMonotone ==
  [][/\ cached_valid = "False" => cached_valid' = "False"
     /\ schemaValid = FALSE => schemaValid' = FALSE
     /\ \A item \in FieldSet : \A idx \in DOMAIN colErrors[item] :
           /\ idx \in DOMAIN colErrors'[item]
           /\ IsPrefix(colErrors[item][idx], colErrors'[item][idx])]_vars

\* After a pass with a failing hook, a later pass without any failure, and a
\* repeated validate, both flags are False.
C19_Witness ==
  /\ ncleans = 2 /\ nvalidates = 2
  /\ hookFailed = {} /\ cached_valid = "False"
  /\ schemaValid = FALSE
  /\ \E item \in FieldSet : \E idx \in DOMAIN colErrors[item] : Len(colErrors[item][idx]) >= 2

====
